---- MODULE Spec2Model ----
\* Comment-wise batching pipeline, gradient-accumulation loop and CRF transition
\* constraints of exp_scripts/segmentation/5_cons_ft_runs_bert_Kripp_alpha.py.
EXTENDS Integers, Sequences, FiniteSets, TLC

VARIABLES
    pc,
    \* one call of split_encoding
    tokenized_thread, split_on, eos_token_id, splitted,
    \* one call of pad_batch, and a second call on its result
    elems, pad_token_id, padded, repadded,
    \* one run of the generator get_comment_wise_dataset
    dataset, max_len, batch_size, consumed,
    comment_wise_tokenized_threads, comment_wise_masked_threads,
    comment_wise_comp_type_labels,
    i, cw_tokenized_threads, cw_masked_threads, cw_comp_type_labels,
    yielded,
    \* train(), once per epoch: the batches its generator yields, the loop
    \* counter, the batches whose gradients are accumulated, the gradients each
    \* optimizer step applied, and the optimizer calls in order
    n_batches, epoch, train_i, grad, steps, log,
    \* the CRF constraints and a tag sequence under them
    allowed_transitions, tags

splitVars == <<tokenized_thread, split_on, eos_token_id, splitted>>
padVars == <<elems, pad_token_id, padded, repadded>>
genArgs == <<dataset, max_len, batch_size>>
commentWise == <<comment_wise_tokenized_threads, comment_wise_masked_threads,
                 comment_wise_comp_type_labels>>
cwBatch == <<cw_tokenized_threads, cw_masked_threads, cw_comp_type_labels>>
genVars == <<genArgs, consumed, commentWise, i, cwBatch, yielded>>
trainVars == <<n_batches, epoch, train_i, grad, steps, log>>
crfVars == <<allowed_transitions, tags>>
vars == <<pc, splitVars, padVars, genVars, trainVars, crfVars>>

\* ---------------------------------------------------------------- bounds
MaxTokenId == 2
MaxSplitLen == 4
MaxPadVal == 1
MaxPadLen == 2
MaxPadRows == 2
MaxTokens == 3
MaxBatchSize == 4
MaxMaxLen == 2
MaxTrainBatches == 9
MaxEpochs == 2
MaxTagSeqLen == 4

\* ---------------------------------------------------------------- helpers
SeqsUpTo(S, n) == UNION {[1..k -> S] : k \in 0..n}

RECURSIVE Flatten(_)
Flatten(ss) == IF ss = <<>> THEN <<>> ELSE Head(ss) \o Flatten(Tail(ss))

RECURSIVE MaxOf(_)
MaxOf(ns) == IF Len(ns) = 1 THEN ns[1]
             ELSE LET m == MaxOf(Tail(ns)) IN IF ns[1] >= m THEN ns[1] ELSE m

Repeat(v, n) == [k \in 1..n |-> v]

\* Python's xs[:n] and xs[n:] for n >= 0.
Take(xs, n) == SubSeq(xs, 1, IF n < Len(xs) THEN n ELSE Len(xs))
Drop(xs, n) == SubSeq(xs, (IF n < Len(xs) THEN n ELSE Len(xs)) + 1, Len(xs))

\* ---------------------------------------------------------------- split_encoding
\* Mutant: the terminator ends the scan before it is appended.
RECURSIVE SplitLoopDropEos(_, _, _, _, _)
SplitLoopDropEos(thread, k, acc, on, eos) ==
    IF k > Len(thread) THEN acc
    ELSE LET elem == thread[k]
             opened == IF elem \in on THEN Append(acc, <<>>) ELSE acc
             appended == [opened EXCEPT ![Len(opened)] = Append(@, elem)]
         IN  IF elem = eos THEN opened
             ELSE SplitLoopDropEos(thread, k + 1, appended, on, eos)

split_encoding_drop_eos(thread, on, eos) ==
    SplitLoopDropEos(thread, 1, << <<>> >>, on, eos)

\* Mutant: the sentinel is appended before the new sub-sequence is opened.
RECURSIVE SplitLoopSentinelLast(_, _, _, _, _)
SplitLoopSentinelLast(thread, k, acc, on, eos) ==
    IF k > Len(thread) THEN acc
    ELSE LET elem == thread[k]
             appended == [acc EXCEPT ![Len(acc)] = Append(@, elem)]
             opened == IF elem \in on THEN Append(appended, <<>>) ELSE appended
         IN  IF elem = eos THEN opened
             ELSE SplitLoopSentinelLast(thread, k + 1, opened, on, eos)

split_encoding_sentinel_last(thread, on, eos) ==
    SplitLoopSentinelLast(thread, 1, << <<>> >>, on, eos)

\* The for loop of split_encoding from element k on, acc being `splitted`.
RECURSIVE SplitLoop(_, _, _, _, _)
SplitLoop(thread, k, acc, on, eos) ==
    IF k > Len(thread) THEN acc
    ELSE LET elem == thread[k]
             opened == IF elem \in on THEN Append(acc, <<>>) ELSE acc
             appended == [opened EXCEPT ![Len(opened)] = Append(@, elem)]
         IN  IF elem = eos THEN appended
             ELSE SplitLoop(thread, k + 1, appended, on, eos)

split_encoding(thread, on, eos) ==
    SplitLoop(thread, 1, << <<>> >>, on, eos)

\* ---------------------------------------------------------------- pad_batch
\* Mutant: the fill is put in front of the row.
pad_batch_left(rows, fill) ==
    LET longest == MaxOf([k \in 1..Len(rows) |-> Len(rows[k])])
    IN  [k \in 1..Len(rows) |-> Repeat(fill, longest - Len(rows[k])) \o rows[k]]

\* Defined for a non-empty list; max() of an empty list raises ValueError.
pad_batch(rows, fill) ==
    LET longest == MaxOf([k \in 1..Len(rows) |-> Len(rows[k])])
    IN  [k \in 1..Len(rows) |-> rows[k] \o Repeat(fill, longest - Len(rows[k]))]

\* ---------------------------------------------------------------- get_comment_wise_dataset
\* The label scheme of the configuration.
ac_dict == ("O" :> 0) @@ ("B-C" :> 1) @@ ("I-C" :> 2) @@ ("B-P" :> 3) @@ ("I-P" :> 4)
           @@ ("B-MC" :> 5) @@ ("I-MC" :> 6)

\* data_config["pad_for"]["comp_type_labels"]
pad_for_comp_type_labels == ac_dict["O"]

\* The tokenizer's ids: padding, an ordinary word piece, the speaker markers
\* ([UNU], [USERi]) and the end-of-sequence token.
tokenizer_pad_token_id == 0
word_token_id == 1
user_token_indices == {2}
tokenizer_eos_token_id == 3

\* np.squeeze(x, axis=0) of an array with a leading axis of size one.
Squeeze(x) == x[1]

\* Mutant: the remaining-suffix cursor is not advanced.
AdvanceCursorStuck(stream, elem) == stream

\* stream[len(elem):], the suffix left for the comments that follow.
AdvanceCursor(stream, elem) == Drop(stream, Len(elem))

\* The loop over the comments of one thread, from comment k on: each comment
\* takes the same-length prefix of what is left of the mask and label streams.
RECURSIVE CommentLoop(_, _, _, _)
CommentLoop(splitted_encodings, k, masked_thread, comp_type_label) ==
    IF k > Len(splitted_encodings) THEN <<>>
    ELSE LET elem == splitted_encodings[k]
         IN  << <<elem, Take(masked_thread, Len(elem)), Take(comp_type_label, Len(elem))>> >>
             \o CommentLoop(splitted_encodings, k + 1,
                            AdvanceCursor(masked_thread, elem),
                            AdvanceCursor(comp_type_label, elem))

\* The (tokens, mask, labels) triples of one thread, in comment order.
ThreadTriples(tokenized, masked_thread, comp_type_label) ==
    CommentLoop(split_encoding(tokenized, user_token_indices, tokenizer_eos_token_id),
                1, masked_thread, comp_type_label)

\* The triples of one element of the dataset: zip() over its squeezed arrays.
RECURSIVE ZipLoop(_, _, _, _)
ZipLoop(tokenized_threads, masked_threads, comp_type_labels, t) ==
    IF t > Len(tokenized_threads) \/ t > Len(masked_threads) \/ t > Len(comp_type_labels)
    THEN <<>>
    ELSE ThreadTriples(tokenized_threads[t], masked_threads[t], comp_type_labels[t])
         \o ZipLoop(tokenized_threads, masked_threads, comp_type_labels, t + 1)

ElementTriples(element) ==
    ZipLoop(Squeeze(element.tokenized_threads), Squeeze(element.masked_threads),
            Squeeze(element.comp_type_labels), 1)

\* Mutant: the for loop over the dataset stops after its first element.
ForLoopDoneAfterFirst(cursor, ds) == cursor >= 1 \/ cursor = Len(ds)

\* The for loop over the dataset ends when the iterator is exhausted.
ForLoopDone(cursor, ds) == cursor = Len(ds)

\* Mutant: the mask row is not cut to max_len.
TruncatedRowMaskUncut(all, k, maxlen) ==
    <<Take(all[1][k], maxlen), all[2][k], Take(all[3][k], maxlen)>>

\* Comment k (counted from 1) of the three running lists, each cut to max_len.
TruncatedRow(all, k, maxlen) ==
    <<Take(all[1][k], maxlen), Take(all[2][k], maxlen), Take(all[3][k], maxlen)>>

\* Mutant: the yield test of the training loop, true one comment early.
YieldNowOneEarly(n, bsize) == n % bsize = bsize - 1

\* i % batch_size == 0, tested after i was incremented.
YieldNow(n, bsize) == n % bsize = 0

\* The while loop from state st = [i, tok, mask, lab] up to its next yield
\* (yield = TRUE) or to its end (yield = FALSE).
RECURSIVE BatchLoop(_, _, _, _)
BatchLoop(all, st, maxlen, bsize) ==
    IF ~(st.i < Len(all[1])) THEN [st EXCEPT !.yield = FALSE]
    ELSE LET row == TruncatedRow(all, st.i + 1, maxlen)
             nxt == [i |-> st.i + 1,
                     tok |-> Append(st.tok, row[1]),
                     mask |-> Append(st.mask, row[2]),
                     lab |-> Append(st.lab, row[3]),
                     yield |-> FALSE]
         IN  IF YieldNow(nxt.i, bsize) THEN [nxt EXCEPT !.yield = TRUE]
             ELSE BatchLoop(all, nxt, maxlen, bsize)

\* ---------------------------------------------------------------- train
accumulate_over == 4

\* Mutant: the optimizer steps on the first batch of each window.
AccumulationDueFirst(n) == n % accumulate_over = 0

\* i % accumulate_over == accumulate_over - 1
AccumulationDue(n) == n % accumulate_over = accumulate_over - 1

\* ---------------------------------------------------------------- CRF constraints
\* Mutant: the Inside-Premise row copied from the Inside-Claim row.
AllowedTransitionsCopied ==
    << <<ac_dict["B-C"], ac_dict["I-C"]>>, <<ac_dict["B-P"], ac_dict["I-P"]>> >>
    \o [k \in 1..4 |-> <<ac_dict["I-C"], ac_dict[<<"I-C", "B-C", "B-P", "O">>[k]]>>]
    \o [k \in 1..4 |-> <<ac_dict["I-P"], ac_dict[<<"I-C", "B-C", "B-P", "O">>[k]]>>]
    \o [k \in 1..3 |-> <<ac_dict["O"], ac_dict[<<"O", "B-C", "B-P">>[k]]>>]

\* The list of (from, to) tag ids handed to the CRF as its constraints.
AllowedTransitions ==
    << <<ac_dict["B-C"], ac_dict["I-C"]>>, <<ac_dict["B-P"], ac_dict["I-P"]>> >>
    \o [k \in 1..4 |-> <<ac_dict["I-C"], ac_dict[<<"I-C", "B-C", "B-P", "O">>[k]]>>]
    \o [k \in 1..4 |-> <<ac_dict["I-P"], ac_dict[<<"I-P", "B-C", "B-P", "O">>[k]]>>]
    \o [k \in 1..3 |-> <<ac_dict["O"], ac_dict[<<"O", "B-C", "B-P">>[k]]>>]

\* num_tags = len(ac_dict)
num_tags == Cardinality(DOMAIN ac_dict)

\* ================================================================ split_encoding calls
TokenIds == 0..MaxTokenId

IdlePad == elems = <<>> /\ pad_token_id = 0 /\ padded = <<>> /\ repadded = <<>>
IdleGen ==
    /\ dataset = <<>> /\ max_len = 0 /\ batch_size = 0 /\ consumed = 0
    /\ comment_wise_tokenized_threads = <<>>
    /\ comment_wise_masked_threads = <<>>
    /\ comment_wise_comp_type_labels = <<>>
    /\ i = 0
    /\ cw_tokenized_threads = <<>> /\ cw_masked_threads = <<>>
    /\ cw_comp_type_labels = <<>>
    /\ yielded = <<>>
IdleTrain ==
    /\ n_batches = 0 /\ epoch = 0 /\ train_i = 0 /\ grad = {} /\ steps = <<>> /\ log = <<>>
IdleCrf == allowed_transitions = <<>> /\ tags = <<>>
IdleSplit == tokenized_thread = <<>> /\ split_on = {} /\ eos_token_id = 0 /\ splitted = <<>>

InitSplit ==
    /\ pc = "split"
    /\ tokenized_thread \in SeqsUpTo(TokenIds, MaxSplitLen)
    /\ split_on \in SUBSET TokenIds
    /\ eos_token_id \in TokenIds
    /\ splitted = <<>>
    /\ IdlePad /\ IdleGen /\ IdleTrain /\ IdleCrf

CallSplit ==
    /\ pc = "split"
    /\ splitted' = split_encoding(tokenized_thread, split_on, eos_token_id)
    /\ pc' = "split_done"
    /\ UNCHANGED <<tokenized_thread, split_on, eos_token_id, padVars, genVars, trainVars, crfVars>>

NextSplit == CallSplit
SpecSplit == InitSplit /\ [][NextSplit]_vars

\* The part of the input the scan reads: up to and including the first
\* terminator, or all of it when the terminator does not occur.
ScannedPrefix(thread, eos) ==
    LET at == {k \in 1..Len(thread) : thread[k] = eos}
    IN  IF at = {} THEN thread
        ELSE SubSeq(thread, 1, CHOOSE k \in at : \A m \in at : k <= m)

SentinelCount(prefix, on) == Cardinality({k \in 1..Len(prefix) : prefix[k] \in on})

\* C4: concatenating the sub-sequences split_encoding returns, in order, gives
\* the input cut immediately after its first terminator (all of the input when
\* there is no terminator).
C4_ConcatIsScannedPrefix ==
    pc = "split_done" =>
        Flatten(splitted) = ScannedPrefix(tokenized_thread, eos_token_id)

C4_Witness ==
    /\ pc = "split_done"
    /\ Len(splitted) >= 2
    /\ Len(ScannedPrefix(tokenized_thread, eos_token_id)) < Len(tokenized_thread)
    /\ Len(ScannedPrefix(tokenized_thread, eos_token_id)) >= 3

\* C5: split_encoding opens a sub-sequence exactly at each sentinel of the
\* scanned prefix: 1 + s sub-sequences, each later one starting with a sentinel,
\* no sentinel at a non-first position, the first one empty only for an empty
\* input or a leading sentinel; an input with neither sentinel nor terminator
\* comes back as one sub-sequence; [A, SENT, B, C, EOS, D] gives
\* [[A], [SENT, B, C, EOS]].
C5_SplitsExactlyAtSentinels ==
    /\ pc = "split_done" =>
        /\ Len(splitted) =
              1 + SentinelCount(ScannedPrefix(tokenized_thread, eos_token_id), split_on)
        /\ \A j \in 2..Len(splitted) :
              splitted[j] # <<>> /\ splitted[j][1] \in split_on
        /\ \A j \in 1..Len(splitted) : \A p \in 2..Len(splitted[j]) :
              splitted[j][p] \notin split_on
        /\ splitted[1] = <<>> =>
              tokenized_thread = <<>> \/ tokenized_thread[1] \in split_on
        /\ (\A k \in 1..Len(tokenized_thread) :
                tokenized_thread[k] \notin split_on /\ tokenized_thread[k] # eos_token_id)
              => splitted = <<tokenized_thread>>
    /\ split_encoding(<<5, 9, 6, 7, 10, 8>>, {9}, 10) = << <<5>>, <<9, 6, 7, 10>> >>

C5_Witness ==
    /\ pc = "split_done"
    /\ Len(splitted) = 3
    /\ splitted[1] # <<>>
    /\ Len(splitted[2]) >= 2

\* ================================================================ pad_batch calls
PadVals == 0..MaxPadVal

InitPad ==
    /\ pc = "pad"
    /\ elems \in SeqsUpTo(SeqsUpTo(PadVals, MaxPadLen), MaxPadRows)
    /\ pad_token_id \in PadVals
    /\ padded = <<>>
    /\ repadded = <<>>
    /\ IdleSplit /\ IdleGen /\ IdleTrain /\ IdleCrf

\* pad_batch(elems, pad_token_id) returns.
CallPad ==
    /\ pc = "pad"
    /\ elems # <<>>
    /\ padded' = pad_batch(elems, pad_token_id)
    /\ pc' = "padded"
    /\ UNCHANGED <<elems, pad_token_id, repadded, splitVars, genVars, trainVars, crfVars>>

\* max([]) raises ValueError.
CallPadEmpty ==
    /\ pc = "pad"
    /\ elems = <<>>
    /\ pc' = "ValueError"
    /\ UNCHANGED <<padVars, splitVars, genVars, trainVars, crfVars>>

\* The result is padded once more with the same fill value.
CallPadAgain ==
    /\ pc = "padded"
    /\ repadded' = pad_batch(padded, pad_token_id)
    /\ pc' = "repadded"
    /\ UNCHANGED <<elems, pad_token_id, padded, splitVars, genVars, trainVars, crfVars>>

NextPad == CallPad \/ CallPadEmpty \/ CallPadAgain
SpecPad == InitPad /\ [][NextPad]_vars

Longest(rows) == CHOOSE n \in {Len(rows[k]) : k \in 1..Len(rows)} :
                    \A k \in 1..Len(rows) : Len(rows[k]) <= n

\* C6: for a non-empty list pad_batch returns as many rows in the same order,
\* all as long as the longest input row, each the input row followed only by
\* the fill value; rows of uniform length come back unchanged, and padding the
\* result again changes nothing. [[1,2],[1,2,3],[1]] with fill 0 gives
\* [[1,2,0],[1,2,3],[1,0,0]].
C6_PadBatch ==
    /\ pc \in {"padded", "repadded"} =>
        /\ Len(padded) = Len(elems)
        /\ \A k \in 1..Len(elems) :
              /\ Len(padded[k]) = Longest(elems)
              /\ SubSeq(padded[k], 1, Len(elems[k])) = elems[k]
              /\ \A p \in (Len(elems[k]) + 1)..Len(padded[k]) :
                    padded[k][p] = pad_token_id
        /\ (\A k \in 1..Len(elems) : Len(elems[k]) = Len(elems[1])) => padded = elems
    /\ pc = "repadded" => repadded = padded
    /\ pad_batch(<< <<1, 2>>, <<1, 2, 3>>, <<1>> >>, 0)
          = << <<1, 2, 0>>, <<1, 2, 3>>, <<1, 0, 0>> >>

C6_Witness ==
    /\ pc = "repadded"
    /\ Len(elems) >= 2
    /\ Len(elems[1]) < Len(elems[2])
    /\ padded # elems
    /\ \E p \in 1..Len(elems[2]) : elems[2][p] # pad_token_id

\* ================================================================ generator runs
GenTokens == {word_token_id} \cup user_token_indices \cup {tokenizer_eos_token_id}

\* One array of n threads of L tokens each, n * L tokens within the budget.
ThreadArrays(budget) ==
    UNION { [1..sh[1] -> [1..sh[2] -> GenTokens]] :
            sh \in {x \in (1..budget) \X (1..budget) : x[1] * x[2] <= budget} }

\* The token arrays of the datasets holding at most `budget` tokens.
RECURSIVE TokenDatasets(_)
TokenDatasets(budget) ==
    {<<>>} \cup UNION { { <<b>> \o d : d \in TokenDatasets(budget - Len(b) * Len(b[1])) } :
                        b \in ThreadArrays(budget) }

\* The generator never reads a mask or label value, so each value names its own
\* place: element e, thread t, position p. No value equals a padding value.
MaskAt(e, t, p) == 1000 + 100 * e + 10 * t + p
LabelAt(e, t, p) == 2000 + 100 * e + 10 * t + p

NonNeg(n) == IF n < 0 THEN 0 ELSE n

\* The dataset over token arrays d, its mask arrays dm and its label arrays dl
\* positions longer than the token arrays; each array has a leading axis of one.
DatasetOf(d, dm, dl) ==
    [e \in 1..Len(d) |->
        [tokenized_threads |-> << d[e] >>,
         masked_threads |-> << [t \in 1..Len(d[e]) |->
                                  [p \in 1..NonNeg(Len(d[e][1]) + dm) |-> MaskAt(e, t, p)]] >>,
         comp_type_labels |-> << [t \in 1..Len(d[e]) |->
                                  [p \in 1..NonNeg(Len(d[e][1]) + dl) |-> LabelAt(e, t, p)]] >>]]

InitGenWith(deltas) ==
    /\ pc = "collect"
    /\ dataset \in { DatasetOf(d, x[1], x[2]) : d \in TokenDatasets(MaxTokens), x \in deltas }
    /\ max_len \in 1..MaxMaxLen
    /\ batch_size \in 1..MaxBatchSize
    /\ consumed = 0
    /\ comment_wise_tokenized_threads = <<>>
    /\ comment_wise_masked_threads = <<>>
    /\ comment_wise_comp_type_labels = <<>>
    /\ i = 0
    /\ cw_tokenized_threads = <<>> /\ cw_masked_threads = <<>>
    /\ cw_comp_type_labels = <<>>
    /\ yielded = <<>>
    /\ IdleSplit /\ IdlePad /\ IdleTrain /\ IdleCrf

\* Every thread's token, mask and label sequences have equal length.
InitGen == InitGenWith({<<0, 0>>})

Column(triples, c) == [k \in 1..Len(triples) |-> triples[k][c]]

\* One iteration of the for loop over the dataset: the next element is taken
\* and the triples of all its threads are appended to the running lists.
GenConsume ==
    /\ pc = "collect"
    /\ ~ForLoopDone(consumed, dataset)
    /\ LET triples == ElementTriples(dataset[consumed + 1])
       IN  /\ comment_wise_tokenized_threads' =
                 comment_wise_tokenized_threads \o Column(triples, 1)
           /\ comment_wise_masked_threads' =
                 comment_wise_masked_threads \o Column(triples, 2)
           /\ comment_wise_comp_type_labels' =
                 comment_wise_comp_type_labels \o Column(triples, 3)
    /\ consumed' = consumed + 1
    /\ UNCHANGED <<pc, genArgs, i, cwBatch, yielded, splitVars, padVars, trainVars, crfVars>>

\* The for loop ends: i = 0 and the per-batch lists are created empty.
GenEndOfInput ==
    /\ pc = "collect"
    /\ ForLoopDone(consumed, dataset)
    /\ i' = 0
    /\ cw_tokenized_threads' = <<>>
    /\ cw_masked_threads' = <<>>
    /\ cw_comp_type_labels' = <<>>
    /\ pc' = "while"
    /\ UNCHANGED <<genArgs, consumed, commentWise, yielded, splitVars, padVars, trainVars, crfVars>>

\* The while loop runs to its next yield, or to its end. Resumed after a yield
\* it first empties the per-batch lists.
GenRun ==
    /\ pc \in {"while", "yield"}
    /\ LET st == [i |-> i,
                  tok |-> IF pc = "yield" THEN <<>> ELSE cw_tokenized_threads,
                  mask |-> IF pc = "yield" THEN <<>> ELSE cw_masked_threads,
                  lab |-> IF pc = "yield" THEN <<>> ELSE cw_comp_type_labels,
                  yield |-> FALSE]
           out == BatchLoop(<<comment_wise_tokenized_threads,
                              comment_wise_masked_threads,
                              comment_wise_comp_type_labels>>, st, max_len, batch_size)
       IN  /\ i' = out.i
           /\ cw_tokenized_threads' = out.tok
           /\ cw_masked_threads' = out.mask
           /\ cw_comp_type_labels' = out.lab
           /\ IF out.yield
              THEN /\ yielded' = Append(yielded,
                        <<pad_batch(out.tok, tokenizer_pad_token_id),
                          pad_batch(out.mask, tokenizer_pad_token_id),
                          pad_batch(out.lab, pad_for_comp_type_labels)>>)
                   /\ pc' = "yield"
              ELSE /\ yielded' = yielded
                   /\ pc' = "exhausted"
    /\ UNCHANGED <<genArgs, consumed, commentWise, splitVars, padVars, trainVars, crfVars>>

NextGen == GenConsume \/ GenEndOfInput \/ GenRun
SpecGen == InitGen /\ [][NextGen]_vars

\* Mask or label arrays may be one position shorter or longer than the tokens.
InitGenMis == InitGenWith({-1, 0, 1} \X {-1, 0, 1})
SpecGenMis == InitGenMis /\ [][NextGen]_vars

RECURSIVE SumLens(_, _)
SumLens(ss, q) == IF q = 0 THEN 0 ELSE Len(ss[q]) + SumLens(ss, q - 1)

\* Where each comment of the input lies: element e, thread t, token positions
\* a .. a + n - 1 of that thread; in input order over the first c elements.
PlacesOfThread(e, t) ==
    LET sp == split_encoding(Squeeze(dataset[e].tokenized_threads)[t],
                             user_token_indices, tokenizer_eos_token_id)
    IN  [q \in 1..Len(sp) |-> [e |-> e, t |-> t, a |-> 1 + SumLens(sp, q - 1), n |-> Len(sp[q])]]

PlacesUpTo(c) ==
    Flatten([e \in 1..c |->
        Flatten([t \in 1..Len(Squeeze(dataset[e].tokenized_threads)) |-> PlacesOfThread(e, t)])])

Places == PlacesUpTo(Len(dataset))

Width(pl) == IF pl.n < max_len THEN pl.n ELSE max_len

\* Positions a .. a + w - 1 of a stream of the thread the comment lies in.
TokensAt(pl, w) == SubSeq(Squeeze(dataset[pl.e].tokenized_threads)[pl.t], pl.a, pl.a + w - 1)
MasksAt(pl, w) == SubSeq(Squeeze(dataset[pl.e].masked_threads)[pl.t], pl.a, pl.a + w - 1)
LabelsAt(pl, w) == SubSeq(Squeeze(dataset[pl.e].comp_type_labels)[pl.t], pl.a, pl.a + w - 1)

\* The comment emitted as row j of batch k, given the places of all comments.
PlaceOfRow(places, k, j) == places[(k - 1) * batch_size + j]

Emitted == {kj \in (1..Len(yielded)) \X (1..batch_size) : kj[2] <= Len(yielded[kj[1]][1])}

\* C1: every emitted batch is rectangular and aligned: all rows of its token,
\* mask and label streams have one common length, at most max_len.
C1_BatchesRectangular ==
    \A k \in 1..Len(yielded) :
        \E L \in 0..max_len :
            \A c \in 1..3 : \A j \in 1..Len(yielded[k][c]) : Len(yielded[k][c][j]) = L

C1_Witness ==
    /\ pc = "yield"
    /\ LET places == Places
       IN  \E j1, j2 \in 1..batch_size :
              /\ PlaceOfRow(places, Len(yielded), j1).n > max_len
              /\ PlaceOfRow(places, Len(yielded), j2).n < max_len
              /\ PlaceOfRow(places, Len(yielded), j1).e
                    # PlaceOfRow(places, Len(yielded), j2).e

\* C2: with N comments in input order and batch size B the generator emits
\* floor(N / B) batches of exactly B triples, batch k holding comments
\* (k-1)*B+1 .. k*B in order; the last N mod B comments are never emitted.
C2_BatchesInOrder ==
    (pc = "exhausted" \/ yielded # <<>>) =>
        LET places == Places
        IN  /\ pc = "exhausted" => Len(yielded) = Len(places) \div batch_size
            /\ Len(yielded) * batch_size <= Len(places)
            /\ \A k \in 1..Len(yielded) :
                  /\ \A c \in 1..3 : Len(yielded[k][c]) = batch_size
                  /\ \A j \in 1..batch_size :
                        LET pl == PlaceOfRow(places, k, j)
                        IN  Take(yielded[k][1][j], Width(pl)) = TokensAt(pl, Width(pl))

C2_Witness ==
    /\ pc = "exhausted"
    /\ Len(dataset) >= 2
    /\ Len(yielded) >= 2
    /\ batch_size >= 2
    /\ Len(Places) % batch_size # 0

\* C3: the comment cut from token positions [a, b) of a thread is emitted with
\* the mask and label values at positions [a, b) of that thread, each stream
\* cut to its first min(b - a, max_len) positions and followed by padding only.
C3_PositionalPairing ==
    yielded # <<>> =>
        LET places == Places
        IN  \A kj \in Emitted :
                LET pl == PlaceOfRow(places, kj[1], kj[2])
                    w == Width(pl)
                    row == [c \in 1..3 |-> yielded[kj[1]][c][kj[2]]]
                IN  /\ Take(row[1], w) = TokensAt(pl, w)
                    /\ Take(row[2], w) = MasksAt(pl, w)
                    /\ Take(row[3], w) = LabelsAt(pl, w)
                    /\ \A p \in (w + 1)..Len(row[1]) : row[1][p] = tokenizer_pad_token_id
                    /\ \A p \in (w + 1)..Len(row[2]) : row[2][p] = tokenizer_pad_token_id
                    /\ \A p \in (w + 1)..Len(row[3]) : row[3][p] = pad_for_comp_type_labels

C3_Witness ==
    yielded # <<>> /\
        LET places == Places
        IN  \E kj \in Emitted :
                /\ PlaceOfRow(places, kj[1], kj[2]).a > 1
                /\ PlaceOfRow(places, kj[1], kj[2]).n > max_len
                /\ kj[2] > 1

\* C8 as stated: once the running lists hold batch_size triples that were not
\* emitted, a batch is emitted before another element is taken from the input.
C8_EmitsBeforeConsumingMore ==
    (pc = "collect" /\ consumed < Len(dataset)) =>
        Len(comment_wise_tokenized_threads) - batch_size * Len(yielded) < batch_size

\* C8 amended: the input is consumed whole, each element once and in order,
\* into running lists that are never cleared, before the first batch is
\* emitted; the per-batch lists are then filled from them, emitted as soon as
\* they hold batch_size triples and emptied on resumption.
C8_ConsumesAllThenBatches ==
    /\ consumed \in 0..Len(dataset)
    /\ LET taken == PlacesUpTo(consumed)
       IN  comment_wise_tokenized_threads =
              [k \in 1..Len(taken) |-> TokensAt(taken[k], taken[k].n)]
    /\ pc = "collect" => yielded = <<>> /\ cw_tokenized_threads = <<>>
    /\ pc # "collect" => consumed = Len(dataset)
    /\ Len(cw_tokenized_threads) <= batch_size
    /\ pc = "yield" => Len(cw_tokenized_threads) = batch_size /\ i = batch_size * Len(yielded)
    /\ pc = "exhausted" =>
          /\ i = Len(comment_wise_tokenized_threads)
          /\ Len(cw_tokenized_threads) = i % batch_size

C8_Witness ==
    /\ pc = "yield"
    /\ Len(dataset) >= 2
    /\ Len(yielded) = 1
    /\ Len(PlacesUpTo(1)) >= batch_size

\* C9: no batch is emitted in which a comment's tokens are paired with a mask
\* or label row of another length before padding.
C9_NoMisalignedTripleEmitted ==
    \A kj \in Emitted :
        LET c == (kj[1] - 1) * batch_size + kj[2]
        IN  /\ Len(Take(comment_wise_masked_threads[c], max_len))
                 = Len(Take(comment_wise_tokenized_threads[c], max_len))
            /\ Len(Take(comment_wise_comp_type_labels[c], max_len))
                 = Len(Take(comment_wise_tokenized_threads[c], max_len))

\* ================================================================ training epochs
InitTrain ==
    /\ pc = "train"
    /\ n_batches \in 0..MaxTrainBatches
    /\ epoch = 1
    /\ train_i = 0
    /\ grad = {}
    /\ steps = <<>>
    /\ log = <<>>
    /\ IdleSplit /\ IdlePad /\ IdleGen /\ IdleCrf

\* train() is entered: optimizer.zero_grad(), i = 0.
TrainStart ==
    /\ pc = "train"
    /\ grad' = {}
    /\ log' = Append(log, "zero_grad")
    /\ train_i' = 0
    /\ pc' = "for"
    /\ UNCHANGED <<n_batches, epoch, steps, splitVars, padVars, genVars, crfVars>>

\* The generator yields the next batch: the loss is computed and
\* back-propagated, which adds the batch's gradient to the accumulated ones.
TrainBackward ==
    /\ pc = "for"
    /\ train_i < n_batches
    /\ grad' = grad \cup {<<epoch, train_i>>}
    /\ log' = Append(log, "backward")
    /\ pc' = "if"
    /\ UNCHANGED <<n_batches, epoch, train_i, steps, splitVars, padVars, genVars, crfVars>>

\* The accumulation test, then i += 1.
TrainAccumulate ==
    /\ pc = "if"
    /\ IF AccumulationDue(train_i)
       THEN /\ steps' = Append(steps, grad)
            /\ grad' = {}
            /\ log' = log \o <<"step", "zero_grad">>
       ELSE UNCHANGED <<steps, grad, log>>
    /\ train_i' = train_i + 1
    /\ pc' = "for"
    /\ UNCHANGED <<n_batches, epoch, splitVars, padVars, genVars, crfVars>>

\* The generator is exhausted: the step after the loop.
TrainFinish ==
    /\ pc = "for"
    /\ train_i = n_batches
    /\ steps' = Append(steps, grad)
    /\ log' = Append(log, "step")
    /\ pc' = "trained"
    /\ UNCHANGED <<n_batches, epoch, train_i, grad, splitVars, padVars, genVars, crfVars>>

\* The next epoch calls train() again on the same dataset.
NextEpoch ==
    /\ pc = "trained"
    /\ epoch < MaxEpochs
    /\ epoch' = epoch + 1
    /\ pc' = "train"
    /\ UNCHANGED <<n_batches, train_i, grad, steps, log, splitVars, padVars, genVars, crfVars>>

NextTrain == TrainStart \/ TrainBackward \/ TrainAccumulate \/ TrainFinish \/ NextEpoch
SpecTrain == InitTrain /\ [][NextTrain]_vars

\* The optimizer calls of one call of train() over n batches, as claimed:
\* zero_grad, a backward per batch with step and zero_grad after every
\* accumulate_over-th one, and one step after the last batch.
EpochLog(n) ==
    <<"zero_grad">>
    \o Flatten([b \in 1..n |-> IF b % accumulate_over = 0
                                THEN <<"backward", "step", "zero_grad">>
                                ELSE <<"backward">>])
    \o <<"step">>

RECURSIVE EpochLogs(_, _)
EpochLogs(n, e) == IF e = 0 THEN <<>> ELSE EpochLogs(n, e - 1) \o EpochLog(n)

StepCount(events) == Cardinality({k \in 1..Len(events) : events[k] = "step"})

\* C7: gradients are zeroed before the first batch; an optimizer step followed
\* by zeroing happens exactly after every accumulate_over-th batch; one more
\* step follows the last batch; parameters change only at these steps, every
\* batch's gradient is applied by exactly one step and no step applies more
\* than accumulate_over batches.
C7_StepEveryKBatches ==
    /\ log = Take(EpochLogs(n_batches, epoch), Len(log))
    /\ pc = "trained" => log = EpochLogs(n_batches, epoch)
    /\ Len(steps) = StepCount(log)
    /\ \A k \in 1..Len(steps) : Cardinality(steps[k]) <= accumulate_over
    /\ \A k, m \in 1..Len(steps) : k # m => steps[k] \cap steps[m] = {}
    /\ pc = "trained" =>
          \A e \in 1..epoch : \A b \in 0..(n_batches - 1) :
              \E k \in 1..Len(steps) : <<e, b>> \in steps[k]

C7_Witness ==
    /\ pc = "trained"
    /\ epoch = 2
    /\ n_batches > 2 * accumulate_over
    /\ n_batches % accumulate_over # 0

\* ================================================================ constrained tag sequences
InitCrf ==
    /\ pc = "crf"
    /\ allowed_transitions = AllowedTransitions
    /\ tags = <<>>
    /\ IdleSplit /\ IdlePad /\ IdleGen /\ IdleTrain

Range(f) == {f[k] : k \in DOMAIN f}

\* A tag sequence starts with any tag (include_start_end_transitions=False).
TagFirst ==
    /\ pc = "crf"
    /\ tags = <<>>
    /\ \E t \in 0..(num_tags - 1) : tags' = <<t>>
    /\ UNCHANGED <<pc, allowed_transitions, splitVars, padVars, genVars, trainVars>>

\* It goes on with any tag the constraints allow after its last one.
TagNext ==
    /\ pc = "crf"
    /\ tags # <<>>
    /\ Len(tags) < MaxTagSeqLen
    /\ \E t \in 0..(num_tags - 1) :
          /\ <<tags[Len(tags)], t>> \in Range(allowed_transitions)
          /\ tags' = Append(tags, t)
    /\ UNCHANGED <<pc, allowed_transitions, splitVars, padVars, genVars, trainVars>>

NextCrf == TagFirst \/ TagNext
SpecCrf == InitCrf /\ [][NextCrf]_vars

Components == {"C", "P", "MC"}
Begin(x) == ac_dict["B-" \o x]
Inside(x) == ac_dict["I-" \o x]

\* C10: the constraint set is BIO-coherent: (from, Inside-X) only for from in
\* {Begin-X, Inside-X}; it holds (Begin-Claim, Inside-Claim) and
\* (Begin-Premise, Inside-Premise) and not (Inside-Claim, Inside-Premise); no
\* tag sequence under it has an Inside-X preceded by anything but Begin-X or
\* Inside-X; the set stays as constructed.
C10_BioCoherent ==
    /\ \A pair \in Range(allowed_transitions) : \A x \in Components :
          pair[2] = Inside(x) => pair[1] \in {Begin(x), Inside(x)}
    /\ <<Begin("C"), Inside("C")>> \in Range(allowed_transitions)
    /\ <<Begin("P"), Inside("P")>> \in Range(allowed_transitions)
    /\ <<Inside("C"), Inside("P")>> \notin Range(allowed_transitions)
    /\ \A p \in 2..Len(tags) : \A x \in Components :
          tags[p] = Inside(x) => tags[p - 1] \in {Begin(x), Inside(x)}
    /\ allowed_transitions = AllowedTransitions

C10_Witness ==
    /\ Len(tags) = 4
    /\ tags[2] = Inside("C")
    /\ tags[4] = Inside("P")

====
